---- MODULE Spec2Model ----
(***************************************************************************)
(* A model of the MTGTop8 URL scraper (src/A9.py): the page loop of        *)
(* scrape_from_url with its pagination step, the page event extractor,     *)
(* the deduplication of event links, extract_event_data, save_data and     *)
(* the control flow of main with its fault and interrupt handlers.         *)
(*                                                                         *)
(* Strings are sequences of one-character strings so that the substring,   *)
(* strip and lower-case tests of the code are computed, not assumed.       *)
(***************************************************************************)
EXTENDS Integers, Sequences, FiniteSets, TLC

VARIABLES
    pc,                \* position of the program in main / scrape_from_url
    session,           \* the browser session: "none", "open", "closed"
    n_urls,            \* len(urls_to_scrape)
    url_idx,           \* index of the address being scraped (main's for loop)
    doc,               \* the document currently loaded in the browser
    current_page,      \* scrape_from_url: current_page
    all_event_links,   \* scrape_from_url: all_event_links
    page_events,       \* scrape_from_url: page_events of the last extraction
    has_next_page,     \* scrape_from_url: has_next_page of the last pagination step
    clicked,           \* links triggered by the last pagination step, in order
    unique_events,     \* scrape_from_url: unique_events
    ev_idx,            \* scrape_from_url: index i of the event being processed
    date,              \* extract_event_data: date
    deck_links,        \* extract_event_data: deck_links
    link_idx,          \* extract_event_data: position in the loop over deck_links
    decks,             \* extract_event_data: decks
    position_counter,  \* extract_event_data: position_counter
    event_result,      \* the value returned by the last extract_event_data call
    all_events_data,   \* self.all_events_data
    all_decks,         \* save_data: all_decks
    chunk_i,           \* save_data: loop variable i of the chunked write
    csv_file,          \* mtgtop8_decks.csv: whether this run wrote it, and its lines
    pending,           \* exception in flight: "none", "fault" or "interrupt"
    outcome,           \* how main's inner try block ended
    interrupts,        \* number of user interrupts raised so far
    extractions,       \* number of calls of get_event_links_from_current_page in this scrape
    navs_after_int,    \* whether an event page was navigated to after a user interrupt
    save_calls,        \* number of save_data calls
    ev_faulted,        \* whether the current extract_event_data call met a fault
    site               \* the web site: how many listing pages it has, the listing and
                       \* event documents it serves

vars == <<pc, session, n_urls, url_idx, doc, current_page, all_event_links,
          page_events, has_next_page, clicked, unique_events, ev_idx, date,
          deck_links, link_idx, decks, position_counter, event_result,
          all_events_data, all_decks, chunk_i, csv_file, pending, outcome,
          interrupts, extractions, navs_after_int, save_calls, ev_faulted, site>>

(***************************************************************************)
(* Bounds of the model.                                                    *)
(***************************************************************************)
MaxLinks == 4          \* length of the accumulated link list drawn for the deduplicator
MaxUrls == 2           \* number of addresses on the command line
MaxInterrupts == 1     \* user interrupts raised in one run
MaxPages == 1          \* listing pages of the site in a whole run
MaxAccum == 2          \* event links the listing pages served in one run hold in total
MaxTables == 3         \* blocks of a document drawn for the page event extractor
MaxBlocks == 2         \* blocks of a document drawn for the pagination step
MaxDeckLinks == 3      \* links of an event page drawn for extract_event_data
MaxRecords == 3        \* event records drawn for save_data
MaxExtraRows == 10     \* rows above the chunking threshold drawn for save_data
\* save_data compares the row count with 100000 (line 543) and slices by 10000
\* (line 545).  The write depends on the two numbers only through that comparison
\* and that slicing, and lists of 100000 rows are out of reach of an explicit
\* search, so the model runs save_data with both numbers scaled down.
ChunkThreshold == 4    \* stands for the 100000 of line 543
chunk_size == 2        \* stands for the 10000 of line 545

(***************************************************************************)
(* Strings.                                                                *)
(***************************************************************************)
UpperToLower ==
    [A |-> "a", B |-> "b", C |-> "c", D |-> "d", E |-> "e", F |-> "f",
     G |-> "g", H |-> "h", I |-> "i", J |-> "j", K |-> "k", L |-> "l",
     M |-> "m", N |-> "n", O |-> "o", P |-> "p", Q |-> "q", R |-> "r",
     S |-> "s", T |-> "t", U |-> "u", V |-> "v", W |-> "w", X |-> "x",
     Y |-> "y", Z |-> "z"]

\* faulty variant of Lower: the case is left as it is
LowerKeepsCase(s) == s

\* str.lower()
Lower(s) ==
    [i \in 1..Len(s) |-> IF s[i] \in DOMAIN UpperToLower THEN UpperToLower[s[i]] ELSE s[i]]

MatchesAt(s, sub, i) ==
    /\ i + Len(sub) - 1 <= Len(s)
    /\ \A k \in 1..Len(sub) : s[i + k - 1] = sub[k]

\* sub in s
Contains(s, sub) == \E i \in 1..(Len(s) + 1) : MatchesAt(s, sub, i)

Whitespace == {" "}

RECURSIVE LStrip(_)
LStrip(s) == IF s # <<>> /\ Head(s) \in Whitespace THEN LStrip(Tail(s)) ELSE s

RECURSIVE RStrip(_)
RStrip(s) ==
    IF s # <<>> /\ s[Len(s)] \in Whitespace THEN RStrip(SubSeq(s, 1, Len(s) - 1)) ELSE s

\* str.strip()
Strip(s) == RStrip(LStrip(s))

Digits == <<"0", "1", "2", "3", "4", "5", "6", "7", "8", "9">>

\* the decimal numeral of n, as an f-string formats {next_page_num}
RECURSIVE ToStr(_)
ToStr(n) == IF n < 10 THEN <<Digits[n + 1]>> ELSE ToStr(n \div 10) \o <<Digits[(n % 10) + 1]>>

(***************************************************************************)
(* Event links and their deduplication (scrape_from_url, lines 307-315).   *)
(***************************************************************************)
EventMarker == <<"e", "v", "e", "n", "t", "?", "e", "=">>

Name1 == <<"G", "P">>
Name2 == <<"P", "T">>
Url1 == EventMarker \o <<"1">>
Url2 == EventMarker \o <<"2">>

\* {'name': event_text, 'url': event_url}
EventLink(name, url) == [name |-> name, url |-> url]

EventLinkSet == {EventLink(nm, u) : nm \in {Name1, Name2}, u \in {Url1, Url2}}

SeqsUpTo(S, n) == UNION {[1..k -> S] : k \in 0..n}

\* faulty variants of DedupStep: without the test of line 313; keyed by name
DedupStepNoCheck(st, event) == <<Append(st[1], event), st[2] \cup {event.url}>>

DedupStepByName(st, event) ==
    IF event.name \notin st[2]
    THEN <<Append(st[1], event), st[2] \cup {event.name}>>
    ELSE st

\* one iteration of the loop at line 312: st = <<unique_events, seen_urls>>
DedupStep(st, event) ==
    IF event.url \notin st[2]
    THEN <<Append(st[1], event), st[2] \cup {event.url}>>
    ELSE st

RECURSIVE DedupLoop(_, _, _)
DedupLoop(links, i, st) ==
    IF i > Len(links) THEN st ELSE DedupLoop(links, i + 1, DedupStep(st, links[i]))

\* unique_events after the loop, from unique_events = [] and seen_urls = set()
Dedup(links) == DedupLoop(links, 1, <<<<>>, {}>>)[1]

(***************************************************************************)
(* Documents.  A document is the sequence of its blocks in document order  *)
(* and its raw text; a block is a table.Stable, a div.Nav_norm or any      *)
(* other region, with the links (a elements) it contains.  A link has the  *)
(* text, href and class it had when find_elements selected it, whether it  *)
(* is enabled, and what reading it does now: "ok", "stale" (every read of  *)
(* the element raises) or "nohref" (get_attribute('href') returns None).   *)
(***************************************************************************)
Link(text, href, class, enabled, state) ==
    [text |-> text, href |-> href, class |-> class, enabled |-> enabled, state |-> state]

Block(kind, links) == [kind |-> kind, links |-> links]

Document(blocks, source) == [blocks |-> blocks, source |-> source]

NoDoc == Document(<<>>, <<>>)

\* the concatenation of a sequence of sequences
RECURSIVE Concat(_)
Concat(ss) == IF ss = <<>> THEN <<>> ELSE Head(ss) \o Concat(Tail(ss))

\* find_elements(By.TAG_NAME, "a"): every link of the document, in document order
AllLinks(d) == Concat([i \in 1..Len(d.blocks) |-> d.blocks[i].links])

IsStable(b) == b.kind = "stable"
IsNav(b) == b.kind = "nav"

\* find_elements(By.CSS_SELECTOR, "table.Stable")
StableTables(d) == SelectSeq(d.blocks, IsStable)

\* find_elements(By.CSS_SELECTOR, "div.Nav_norm")
NavDivs(d) == SelectSeq(d.blocks, IsNav)

\* element.get_attribute('href')
ReadHref(l) == IF l.state = "nohref" THEN <<>> ELSE l.href

(***************************************************************************)
(* get_event_links_from_current_page (lines 377-444).                      *)
(***************************************************************************)
Str_und == <<"u", "n", "d">>
Str_league == <<"l", "e", "a", "g", "u", "e">>

HasEventHref(l) == Contains(l.href, EventMarker)

\* faulty variant of UsedTable: the first table
UsedTableFirst(tables) == tables[1]

\* the table whose links are used, line 396: stable_tables[1]
UsedTable(tables) == tables[2]

\* the three tests of lines 413-426 on a link that could be read
LinkSurvives(l) ==
    /\ Strip(l.text) # <<>>
    /\ ReadHref(l) # <<>>
    /\ ~Contains(l.class, Str_und)
    /\ ~Contains(Lower(Strip(l.text)), Str_league)

\* the loop of lines 406-435 over event_elements
RECURSIVE FilterEvents(_)
FilterEvents(elements) ==
    IF elements = <<>> THEN <<>>
    ELSE LET l == Head(elements)
             rest == FilterEvents(Tail(elements))
         IN  IF l.state = "stale" THEN rest
             ELSE IF LinkSurvives(l)
                  THEN <<EventLink(Strip(l.text), ReadHref(l))>> \o rest
                  ELSE rest

\* the value returned; driverFault: a browser call of lines 383-401 raises
GetEventLinks(d, driverFault) ==
    IF driverFault THEN <<>>
    ELSE IF Len(StableTables(d)) < 2 THEN <<>>
    ELSE FilterEvents(SelectSeq(UsedTable(StableTables(d)).links, HasEventHref))

(***************************************************************************)
(* The pagination step of scrape_from_url (lines 141-294).                 *)
(***************************************************************************)
Str_Next == <<"N", "e", "x", "t">>
Str_next == <<"n", "e", "x", "t">>
Str_NEXT == <<"N", "E", "X", "T">>
Str_NavPNno == <<"N", "a", "v", "_", "P", "N", "_", "n", "o">>
Str_cp == <<"c", "p", "=">>
Str_archetype == <<"a", "r", "c", "h", "e", "t", "y", "p", "e">>
Str_aggro == <<"a", "g", "g", "r", "o">>
Str_control == <<"c", "o", "n", "t", "r", "o", "l">>
Str_combo == <<"c", "o", "m", "b", "o">>

\* the result of one pass: has_next_page, the links triggered, whether a fault was caught
PagResult(has_next, clicks, fault) == [has_next |-> has_next, clicked |-> clicks, fault |-> fault]

\* the XPath of line 160
IsNextText(l) ==
    \/ Contains(l.text, Str_Next)
    \/ Contains(l.text, Str_next)
    \/ Contains(l.text, Str_NEXT)

\* faulty variant of NextLink: the first container is searched
NextLinkFirstDiv(d) ==
    IF NavDivs(d) = <<>> THEN <<>>
    ELSE LET found == SelectSeq(NavDivs(d)[1].links, IsNextText)
         IN  IF found = <<>> THEN <<>> ELSE <<found[1]>>

\* next_link of lines 154-169: <<>> when None, else <<the link>>
NextLink(d) ==
    IF NavDivs(d) = <<>> THEN <<>>
    ELSE LET found == SelectSeq(NavDivs(d)[Len(NavDivs(d))].links, IsNextText)
         IN  IF found = <<>> THEN <<>> ELSE <<found[1]>>

\* line 178
IsDisabled(class) == Contains(class, Str_NavPNno)

\* faulty variant of Click: the success flag is set before current_url is read
ClickFlagFirst(l, drv) ==
    IF drv = "click" THEN PagResult(FALSE, <<>>, TRUE)
    ELSE IF drv = "url" THEN PagResult(TRUE, <<l>>, TRUE)
    ELSE PagResult(TRUE, <<l>>, FALSE)

\* execute_script click followed by the read of current_url (lines 183-188, 237-243)
Click(l, drv) ==
    IF drv = "click" THEN PagResult(FALSE, <<>>, TRUE)
    ELSE IF drv = "url" THEN PagResult(FALSE, <<l>>, TRUE)
    ELSE PagResult(TRUE, <<l>>, FALSE)

\* Method 1, lines 146-190
Method1(d, drv) ==
    IF NextLink(d) = <<>> THEN PagResult(FALSE, <<>>, FALSE)
    ELSE LET l == NextLink(d)[1]
         IN  IF l.state = "stale" THEN PagResult(FALSE, <<>>, TRUE)
             ELSE IF IsDisabled(l.class) THEN PagResult(FALSE, <<>>, FALSE)
             ELSE IF l.enabled THEN Click(l, drv)
             ELSE PagResult(FALSE, <<>>, FALSE)

\* page_selectors of lines 198-205
Selects(k, l, num) ==
    CASE k = 1 -> Strip(l.text) = ToStr(num)
      [] k = 2 -> Contains(l.href, Str_cp \o ToStr(num))
      [] k = 3 -> \/ Contains(l.href, <<"&">> \o Str_cp \o ToStr(num))
                  \/ Contains(l.href, <<"?">> \o Str_cp \o ToStr(num))

\* lines 225-229
NotPagination(l) ==
    \/ Contains(ReadHref(l), Str_archetype)
    \/ Contains(Lower(Strip(l.text)), Str_aggro)
    \/ Contains(Lower(Strip(l.text)), Str_control)
    \/ Contains(Lower(Strip(l.text)), Str_combo)
    \/ Len(Strip(l.text)) > 3

\* the loop of lines 214-244 over page_links; <<>> when no link was accepted
RECURSIVE ScanPageLinks(_, _)
ScanPageLinks(links, drv) ==
    IF links = <<>> THEN <<>>
    ELSE LET l == Head(links)
         IN  IF l.state = "stale" THEN <<PagResult(FALSE, <<>>, TRUE)>>
             ELSE IF IsDisabled(l.class) \/ NotPagination(l)
                  THEN ScanPageLinks(Tail(links), drv)
                  ELSE <<Click(l, drv)>>

\* the loop of lines 208-247 over page_selectors
RECURSIVE TrySelectors(_, _, _, _)
TrySelectors(d, num, k, drv) ==
    IF k > 3 THEN PagResult(FALSE, <<>>, FALSE)
    ELSE LET sel(l) == Selects(k, l, num)
             r == ScanPageLinks(SelectSeq(AllLinks(d), sel), drv)
         IN  IF r # <<>> THEN r[1] ELSE TrySelectors(d, num, k + 1, drv)

\* Method 2, lines 192-250
Method2(d, page, drv) == TrySelectors(d, page + 1, 1, drv)

\* the debug listing of lines 253-290 reads every link of the document
DebugFaults(d) == \E i \in 1..Len(AllLinks(d)) : AllLinks(d)[i].state = "stale"

\* one pass of the try block of lines 145-294 on page `page`;
\* drv: the browser call that raises ("none", "find", "click", "url")
PaginationStep(d, page, drv) ==
    IF drv = "find" THEN PagResult(FALSE, <<>>, TRUE)
    ELSE LET r1 == Method1(d, drv)
         IN  IF r1.fault \/ r1.has_next THEN r1
             ELSE LET r2 == Method2(d, page, drv)
                  IN  IF r2.fault \/ r2.has_next THEN r2
                      ELSE PagResult(FALSE, <<>>, DebugFaults(d))

DriverFaults == {"none", "find", "click", "url"}

(***************************************************************************)
(* extract_event_data (lines 446-505).                                     *)
(***************************************************************************)
Str_Unknown == <<"U", "n", "k", "n", "o", "w", "n">>
DeckMarker == <<"&", "d", "=">>

IsDigit(c) == \E k \in 1..10 : Digits[k] = c

\* the pattern \d{2}/\d{2}/\d{2} matches at position i of s
DateAt(s, i) ==
    /\ i + 7 <= Len(s)
    /\ \A k \in {0, 1, 3, 4, 6, 7} : IsDigit(s[i + k])
    /\ s[i + 2] = "/"
    /\ s[i + 5] = "/"

\* lines 456-461: re.search on the page source, first match or "Unknown"
DateOf(source) ==
    IF \E i \in 1..Len(source) : DateAt(source, i)
    THEN LET first == CHOOSE i \in 1..Len(source) :
                          /\ DateAt(source, i)
                          /\ \A j \in 1..(i - 1) : ~DateAt(source, j)
         IN  SubSeq(source, first, first + 7)
    ELSE Str_Unknown

\* find_elements(By.CSS_SELECTOR, "a[href*='&d=']"), line 469
HasDeckHref(l) == Contains(l.href, DeckMarker)

DeckLinks(d) == SelectSeq(AllLinks(d), HasDeckHref)

\* the dict of lines 478-483
Deck(position, deck_name, deck_url) ==
    [position |-> position, deck_name |-> deck_name, player |-> Str_Unknown,
     deck_url |-> deck_url]

\* the test of line 477 on a link that could be read
DeckAccepted(l) ==
    /\ Strip(l.text) # <<>>
    /\ ReadHref(l) # <<>>
    /\ Contains(ReadHref(l), DeckMarker)

\* faulty variant of DeckStep: the counter advances on every link
DeckStepAlwaysCount(st, l, raised) ==
    IF raised \/ l.state = "stale" \/ ~DeckAccepted(l) THEN <<st[1], st[2] + 1>>
    ELSE <<Append(st[1], Deck(st[2], Strip(l.text), ReadHref(l))), st[2] + 1>>

\* one iteration of the loop of lines 472-487: st = <<decks, position_counter>>;
\* raised: reading the link raises (the bare except of line 486 continues)
DeckStep(st, l, raised) ==
    IF raised \/ l.state = "stale" THEN st
    ELSE IF DeckAccepted(l)
         THEN <<Append(st[1], Deck(st[2], Strip(l.text), ReadHref(l))), st[2] + 1>>
         ELSE st

\* the dict of lines 492-498
EventData(event_name, dt, event_url, dks) ==
    [event_name |-> event_name, date |-> dt, event_url |-> event_url,
     total_decks |-> Len(dks), decks |-> dks]

\* a returned value is <<>> for None and <<record>> for a record
None == <<>>

(***************************************************************************)
(* save_data (lines 507-568).                                              *)
(***************************************************************************)
\* faulty variant of FlatRow: the two urls exchanged
FlatRowSwapped(event, deck) ==
    [event_name |-> event.event_name, event_date |-> event.date,
     event_url |-> deck.deck_url, deck_position |-> deck.position,
     deck_name |-> deck.deck_name, player_name |-> deck.player,
     deck_url |-> event.event_url]

\* the dict of lines 525-533
FlatRow(event, deck) ==
    [event_name |-> event.event_name, event_date |-> event.date,
     event_url |-> event.event_url, deck_position |-> deck.position,
     deck_name |-> deck.deck_name, player_name |-> deck.player,
     deck_url |-> deck.deck_url]

\* the inner loop of line 524
EventRows(event) == [j \in 1..Len(event.decks) |-> FlatRow(event, event.decks[j])]

\* the loops of lines 519-533
RECURSIVE Flatten(_)
Flatten(events) ==
    IF events = <<>> THEN <<>> ELSE EventRows(Head(events)) \o Flatten(Tail(events))

\* the column names of pd.DataFrame(all_decks), in the key order of the dicts
Header ==
    <<"event_name", "event_date", "event_url", "deck_position", "deck_name",
      "player_name", "deck_url">>

\* one line of the file written by to_csv(index=False)
CsvLine(row) ==
    <<row.event_name, row.event_date, row.event_url, ToStr(row.deck_position),
      row.deck_name, row.player_name, row.deck_url>>

CsvLines(rows) == [j \in 1..Len(rows) |-> CsvLine(rows[j])]

\* chunk.to_csv(csv_filename, index=False, mode=..., header=...), lines 549-551 and 554
File(exists, lines) == [exists |-> exists, lines |-> lines]

NoFile == File(FALSE, <<>>)

ToCsv(file, rows, mode, header) ==
    File(TRUE, (IF mode = "w" THEN <<>> ELSE file.lines)
                   \o (IF header THEN <<Header>> ELSE <<>>) \o CsvLines(rows))

\* faulty variant of Chunk: every slice starts at the first row
ChunkNoAdvance(rows, i) == SubSeq(rows, 1, chunk_size)

\* df[i:i+chunk_size], line 547 (i counts from 0)
Chunk(rows, i) ==
    SubSeq(rows, i + 1, IF i + chunk_size < Len(rows) THEN i + chunk_size ELSE Len(rows))

\* faulty variant of HasRows: the write is not guarded
HasRowsAlways(rows) == TRUE

\* the guard of line 536: if all_decks
HasRows(rows) == rows # <<>>

\* range(0, len(df), chunk_size), line 546
ChunkStarts(n) == {k * chunk_size : k \in 0..((n - 1) \div chunk_size)}

\* the iterations of the loop of lines 546-552 with i = from, from + chunk_size, ...
\* that start before index stop
RECURSIVE WriteChunks(_, _, _, _)
WriteChunks(file, rows, from, stop) ==
    IF from >= stop \/ from >= Len(rows) THEN file
    ELSE WriteChunks(ToCsv(file, Chunk(rows, from), IF from = 0 THEN "w" ELSE "a", from = 0),
                     rows, from + chunk_size, stop)

(***************************************************************************)
(* The web site.                                                           *)
(***************************************************************************)
PageCeiling == 5000

NoClass == <<>>
Href_cp2 == <<"f", "?", "c", "p", "=", "2">>
Href_cp20 == <<"f", "?", "c", "p", "=", "2", "0">>
Href_arch == <<"a", "r", "c", "h", "e", "t", "y", "p", "e", "?", "c", "p", "=", "2">>
Href_top == <<"t", "o", "p">>
DeckUrl1 == EventMarker \o <<"1">> \o DeckMarker \o <<"7">>
DeckUrl2 == EventMarker \o <<"1">> \o DeckMarker \o <<"8">>

L_GP1 == Link(Name1, Url1, NoClass, TRUE, "ok")
L_GP2 == Link(Name1, Url2, NoClass, TRUE, "ok")
L_PT1 == Link(<<" ">> \o Name2 \o <<" ">>, Url1, NoClass, TRUE, "ok")
L_PT2 == Link(Name2, Url2, NoClass, TRUE, "ok")
L_League == Link(<<"M", "y", " ", "L", "E", "a", "g", "u", "e">>, Url2, NoClass, TRUE, "ok")
L_Und == Link(Name1, Url2, Str_und, TRUE, "ok")
L_Round == Link(Name1, Url1, <<"r", "o", "u", "n", "d">>, TRUE, "ok")
L_Blank == Link(<<" ">>, Url1, NoClass, TRUE, "ok")
L_Stale == Link(Name1, Url2, NoClass, TRUE, "stale")
L_NoHref == Link(Name2, Url2, NoClass, TRUE, "nohref")
L_Top == Link(<<"T", "o", "p">>, Href_top, NoClass, TRUE, "ok")

L_NextOn == Link(Str_Next, Href_cp2, <<"N", "a", "v", "_", "P", "N">>, TRUE, "ok")
L_NextOff == Link(Str_Next, <<>>, Str_NavPNno, TRUE, "ok")
L_NextGrey == Link(Str_next, Href_cp2, NoClass, FALSE, "ok")
L_NextStale == Link(Str_NEXT, Href_cp2, NoClass, TRUE, "stale")
L_Prev == Link(<<"P", "r", "e", "v">>, Href_top, NoClass, TRUE, "ok")
L_Num2 == Link(<<" ", "2">>, Href_cp2, NoClass, TRUE, "ok")
L_Num2Off == Link(<<"2">>, Href_cp2, Str_NavPNno, TRUE, "ok")
L_Num20 == Link(<<"2", "0">>, Href_cp20, NoClass, TRUE, "ok")
L_Num3 == Link(<<"3">>, <<"f", "?", "c", "p", "=", "3">>, NoClass, TRUE, "ok")
L_Arch == Link(<<"A", "g", "g", "r", "o">>, Href_arch, NoClass, TRUE, "ok")
L_Page2 == Link(<<"P", "a", "g", "e", " ", "2">>, Href_cp2, NoClass, TRUE, "ok")

L_Deck1 == Link(<<"R", "e", "d">>, DeckUrl1, NoClass, TRUE, "ok")
L_Deck2 == Link(<<"E", "l", "f">>, DeckUrl2, NoClass, TRUE, "ok")
L_DeckBlank == Link(<<>>, DeckUrl1, NoClass, TRUE, "ok")
L_DeckStale == Link(<<"R", "e", "d">>, DeckUrl2, NoClass, TRUE, "stale")
L_DeckNoHref == Link(<<"E", "l", "f">>, DeckUrl2, NoClass, TRUE, "nohref")

Stable(links) == Block("stable", links)
Nav(links) == Block("nav", links)
Other(links) == Block("other", links)

\* the listing pages of a run
Doc_A == Document(<<Stable(<<L_Top, L_GP2>>), Stable(<<L_GP1, L_PT2>>), Nav(<<L_Prev, L_NextOn>>)>>, <<>>)
Doc_B == Document(<<Stable(<<L_Top>>), Stable(<<L_GP1, L_League, L_GP1>>), Nav(<<L_NextOff>>)>>, <<>>)
Doc_C == Document(<<Stable(<<L_GP1>>)>>, <<>>)
Doc_D == Document(<<Nav(<<L_NextOff>>), Other(<<L_Num2>>)>>, <<>>)
Doc_E == Document(<<Stable(<<L_Top>>), Stable(<<L_GP1>>)>>, <<>>)
Doc_F == Document(<<Stable(<<L_Top>>), Stable(<<L_GP1, L_PT2>>)>>, <<>>)
RunDocs == {Doc_A, Doc_B, Doc_C, Doc_D, Doc_E, Doc_F}

\* the listing pages of a site that always has a next page
Doc_N == Document(<<Nav(<<L_NextOn>>)>>, <<>>)
LoopDocs == {Doc_N, Doc_C}

\* event pages
Src_dated == <<"1", "/", "0", "2", "/", "0", "3", "/", "2", "4", "/", "0", "5">>
Src_plain == <<"n", "o", " ", "1", "/", "2", "/", "3">>
Ev_1 == Document(<<Other(<<L_Deck1, L_Top, L_Deck2>>)>>, Src_dated)
Ev_2 == Document(<<Other(<<L_Top>>)>>, Src_plain)
EventDocs == {Ev_1, Ev_2}

\* a site: its number of listing pages and the names of the families of listing
\* and event documents it serves
Site(pages, docs, events) == [pages |-> pages, docs |-> docs, events |-> events]

\* listing documents of at most MaxTables blocks, for the page event extractor
TableBlocks ==
    {Stable(<<L_Top>>),
     Stable(<<L_GP1, L_PT2>>),
     Stable(<<L_PT1, L_League, L_GP2>>),
     Stable(<<L_Und, L_Blank, L_Stale, L_NoHref, L_Round>>),
     Stable(<<L_GP2>>),
     Other(<<L_PT2>>),
     Nav(<<L_GP1>>)}

WideListingDocs == {Document(bs, <<>>) : bs \in SeqsUpTo(TableBlocks, MaxTables)}

\* listing documents of at most MaxBlocks blocks, for the pagination step
PagBlocks ==
    {Nav(<<L_Prev, L_NextOn>>),
     Nav(<<L_NextOff>>),
     Nav(<<L_NextGrey>>),
     Nav(<<L_NextStale>>),
     Nav(<<L_Prev>>),
     Other(<<L_Num2>>),
     Other(<<L_Num2Off>>),
     Other(<<L_Num20>>),
     Other(<<L_Num3>>),
     Other(<<L_Arch>>),
     Other(<<L_Page2>>),
     Stable(<<L_GP1>>)}

PagDocs == {Document(bs, <<>>) : bs \in SeqsUpTo(PagBlocks, MaxBlocks)}

\* event pages of at most MaxDeckLinks links
DeckPalette == {L_Deck1, L_Deck2, L_DeckBlank, L_DeckStale, L_DeckNoHref, L_Top}

WideEventDocs ==
    {Document(<<Other(ls)>>, src) :
        ls \in SeqsUpTo(DeckPalette, MaxDeckLinks), src \in {Src_dated, Src_plain}}

\* the families of documents of the site
ListingDocs == IF site.docs = "loop" THEN LoopDocs ELSE RunDocs

ServedEvent == IF site.events = "wide" THEN WideEventDocs ELSE EventDocs

\* the documents the site may serve as listing page `page`
ServedListing(page) ==
    {d \in ListingDocs :
        /\ page >= site.pages => ~PaginationStep(d, page, "none").has_next
        /\ Len(all_events_data) + Len(all_event_links) + Len(GetEventLinks(d, FALSE))
               <= MaxAccum}

(***************************************************************************)
(* The run: main (lines 578-704) and the methods it calls.                 *)
(***************************************************************************)
envVars == <<n_urls, site>>
pageVars == <<current_page, all_event_links, page_events, has_next_page, clicked, extractions>>
eventVars == <<date, deck_links, link_idx, decks, position_counter, event_result, ev_faulted>>
saveVars == <<all_decks, chunk_i, csv_file, save_calls>>

\* the values of the variables a part of the program has not touched yet
IdlePage ==
    /\ current_page = 1
    /\ page_events = <<>>
    /\ has_next_page = FALSE
    /\ clicked = <<>>
    /\ extractions = 0

IdleEvent ==
    /\ date = Str_Unknown
    /\ deck_links = <<>>
    /\ link_idx = 0
    /\ decks = <<>>
    /\ position_counter = 1
    /\ event_result = None
    /\ ev_faulted = FALSE

IdleSave ==
    /\ all_decks = <<>>
    /\ chunk_i = 0
    /\ csv_file = NoFile
    /\ save_calls = 0

IdleRun ==
    /\ pending = "none"
    /\ outcome = "running"
    /\ interrupts = 0
    /\ navs_after_int = FALSE

IdleLocals ==
    /\ url_idx = 0
    /\ doc = NoDoc
    /\ all_event_links = <<>>
    /\ unique_events = <<>>
    /\ ev_idx = 0
    /\ all_events_data = <<>>
    /\ IdlePage
    /\ IdleEvent
    /\ IdleSave
    /\ IdleRun

\* the locals of scrape_from_url go out of scope when it returns
ScrapeReturns ==
    /\ pc' = "next_url"
    /\ current_page' = 1
    /\ all_event_links' = <<>>
    /\ page_events' = <<>>
    /\ has_next_page' = FALSE
    /\ clicked' = <<>>
    /\ extractions' = 0
    /\ unique_events' = <<>>
    /\ ev_idx' = 0

\* the locals of extract_event_data go out of scope when it returns
EventLocalsReset ==
    /\ date' = Str_Unknown
    /\ deck_links' = <<>>
    /\ link_idx' = 0
    /\ decks' = <<>>
    /\ position_counter' = 1

Init ==
    /\ pc = "init"
    /\ session = "none"
    /\ n_urls \in 1..MaxUrls
    /\ site = Site(MaxPages, "run", "run")
    /\ IdleLocals

\* lines 625-634 and __init__ (lines 53-79)
StartBrowser ==
    /\ pc = "init"
    /\ \E r \in {"ok", "no_chrome", "late_fault"} :
          /\ session' = IF r = "no_chrome" THEN "none" ELSE "open"
          /\ pc' = IF r = "ok" THEN "next_url" ELSE "done"
          /\ outcome' = IF r = "ok" THEN outcome ELSE "failed_start"
    /\ all_events_data' = <<>>
    /\ UNCHANGED <<envVars, pageVars, eventVars, saveVars, url_idx, doc, unique_events,
                   ev_idx, pending, interrupts, navs_after_int>>

\* the for loop of lines 641-655
NextUrl ==
    /\ pc = "next_url"
    /\ IF url_idx < n_urls
       THEN url_idx' = url_idx + 1 /\ pc' = "load"
       ELSE url_idx' = url_idx /\ pc' = "save"
    /\ UNCHANGED <<envVars, pageVars, eventVars, saveVars, session, doc, unique_events,
                   ev_idx, all_events_data, pending, outcome, interrupts, navs_after_int>>

\* lines 86-95; a fault is caught at line 372 and scrape_from_url returns 0
LoadInitial ==
    /\ pc = "load"
    /\ \E fault \in BOOLEAN :
          IF fault
          THEN ScrapeReturns /\ doc' = doc
          ELSE /\ pc' = "extract"
               /\ doc' \in ServedListing(1)
               /\ UNCHANGED <<pageVars, unique_events, ev_idx>>
    /\ UNCHANGED <<envVars, eventVars, saveVars, session, url_idx, all_events_data, pending,
                   outcome, interrupts, navs_after_int>>

\* lines 99-138: get_event_links_from_current_page and the two branches on its result;
\* a fault of the debug branch (lines 120-138) is caught at line 372
ExtractPage ==
    /\ pc = "extract"
    /\ \E driverFault \in BOOLEAN, debugFault \in BOOLEAN :
          LET found == GetEventLinks(doc, driverFault)
          IN  /\ found # <<>> => ~debugFault
              /\ IF debugFault
                 THEN ScrapeReturns
                 ELSE /\ page_events' = found
                      /\ all_event_links' = all_event_links \o found
                      /\ extractions' = extractions + 1
                      /\ pc' = "paginate"
                      /\ UNCHANGED <<current_page, has_next_page, clicked, unique_events,
                                     ev_idx>>
    /\ UNCHANGED <<envVars, eventVars, saveVars, session, url_idx, doc, all_events_data,
                   pending, outcome, interrupts, navs_after_int>>

\* faulty variant of CeilingReached: one page late
CeilingReachedLate(page) == page > PageCeiling + 1

\* line 303, on the incremented current_page
CeilingReached(page) == page > PageCeiling

\* lines 140-305: the pagination step and the loop control that follows it
Paginate ==
    /\ pc = "paginate"
    /\ \E drv \in DriverFaults :
          LET r == PaginationStep(doc, current_page, drv)
          IN  /\ has_next_page' = r.has_next
              /\ clicked' = r.clicked
              /\ IF r.clicked = <<>>
                 THEN doc' = doc
                 ELSE doc' \in ServedListing(current_page + 1)
              /\ IF ~r.has_next
                 THEN pc' = "dedup" /\ current_page' = current_page
                 ELSE /\ current_page' = current_page + 1
                      /\ pc' = IF CeilingReached(current_page + 1) THEN "dedup" ELSE "extract"
    /\ UNCHANGED <<envVars, eventVars, saveVars, session, url_idx, all_event_links,
                   page_events, extractions, unique_events, ev_idx, all_events_data,
                   pending, outcome, interrupts, navs_after_int>>

\* lines 307-342
Deduplicate ==
    /\ pc = "dedup"
    /\ IF Len(all_event_links) = 0
       THEN ScrapeReturns
       ELSE /\ unique_events' = Dedup(all_event_links)
            /\ pc' = "ev_nav"
            /\ ev_idx' = 1
            /\ UNCHANGED pageVars
    /\ UNCHANGED <<envVars, eventVars, saveVars, session, url_idx, doc, all_events_data,
                   pending, outcome, interrupts, navs_after_int>>

\* the event being processed, line 343
CurrentEvent == unique_events[ev_idx]

\* faulty variant of ExtractFailed: an empty record is returned
ExtractFailedPartial(event_name, event_url) ==
    <<EventData(event_name, Str_Unknown, event_url, <<>>)>>

\* lines 503-505: the value returned when the outer try of extract_event_data catches a fault
ExtractFailed(event_name, event_url) == None

\* lines 353-358: the caller appends the record when there is one
AppendResult(data, result) == IF result # None THEN data \o result ELSE data

\* lines 448-453: driver.get(event_url) and the settle delay
EvNavigate ==
    /\ pc = "ev_nav"
    /\ navs_after_int' = (navs_after_int \/ interrupts > 0)
    /\ EventLocalsReset
    /\ \E fault \in BOOLEAN :
          IF fault
          THEN /\ event_result' = ExtractFailed(CurrentEvent.name, CurrentEvent.url)
               /\ all_events_data' = AppendResult(all_events_data, event_result')
               /\ ev_faulted' = TRUE
               /\ doc' = doc
               /\ pc' = "ev_wait"
          ELSE /\ event_result' = None
               /\ all_events_data' = all_events_data
               /\ ev_faulted' = FALSE
               /\ doc' \in ServedEvent
               /\ pc' = "ev_date"
    /\ UNCHANGED <<envVars, pageVars, saveVars, session, url_idx, unique_events, ev_idx,
                   pending, outcome, interrupts>>

\* lines 455-463: the date, with the bare except that keeps "Unknown"
EvDate ==
    /\ pc = "ev_date"
    /\ \E fault \in BOOLEAN :
          /\ date' = IF fault THEN date ELSE DateOf(doc.source)
          /\ ev_faulted' = (ev_faulted \/ fault)
    /\ pc' = "ev_find"
    /\ UNCHANGED <<envVars, pageVars, saveVars, session, url_idx, doc, unique_events, ev_idx,
                   deck_links, link_idx, decks, position_counter, event_result,
                   all_events_data, pending, outcome, interrupts, navs_after_int>>

\* lines 466-471 and the handler of lines 489-490
EvFindDecks ==
    /\ pc = "ev_find"
    /\ \E fault \in BOOLEAN :
          IF fault
          THEN /\ deck_links' = <<>>
               /\ link_idx' = link_idx
               /\ ev_faulted' = TRUE
               /\ pc' = "ev_return"
          ELSE /\ deck_links' = DeckLinks(doc)
               /\ link_idx' = 1
               /\ ev_faulted' = ev_faulted
               /\ pc' = IF DeckLinks(doc) = <<>> THEN "ev_return" ELSE "ev_link"
    /\ position_counter' = 1
    /\ UNCHANGED <<envVars, pageVars, saveVars, session, url_idx, doc, unique_events, ev_idx,
                   date, decks, event_result, all_events_data, pending, outcome, interrupts,
                   navs_after_int>>

\* one iteration of the loop of lines 472-487
EvReadLink ==
    /\ pc = "ev_link"
    /\ LET l == deck_links[link_idx]
           st == DeckStep(<<decks, position_counter>>, l, FALSE)
       IN  /\ decks' = st[1]
           /\ position_counter' = st[2]
           /\ ev_faulted' = (ev_faulted \/ l.state = "stale")
    /\ link_idx' = link_idx + 1
    /\ pc' = IF link_idx + 1 > Len(deck_links) THEN "ev_return" ELSE "ev_link"
    /\ UNCHANGED <<envVars, pageVars, saveVars, session, url_idx, doc, unique_events, ev_idx,
                   date, deck_links, event_result, all_events_data, pending, outcome,
                   interrupts, navs_after_int>>

\* lines 492-501 of extract_event_data and lines 351-358 of its caller
EvReturn ==
    /\ pc = "ev_return"
    /\ event_result' = <<EventData(CurrentEvent.name, date, CurrentEvent.url, decks)>>
    /\ all_events_data' = AppendResult(all_events_data, event_result')
    /\ EventLocalsReset
    /\ pc' = "ev_wait"
    /\ UNCHANGED <<envVars, pageVars, saveVars, session, url_idx, doc, unique_events, ev_idx,
                   ev_faulted, pending, outcome, interrupts, navs_after_int>>

\* lines 360-370: the delay between two events, the next iteration or the return
EvWait ==
    /\ pc = "ev_wait"
    /\ IF ev_idx < Len(unique_events)
       THEN /\ pc' = "ev_nav"
            /\ ev_idx' = ev_idx + 1
            /\ UNCHANGED <<pageVars, unique_events, event_result, ev_faulted>>
       ELSE /\ ScrapeReturns
            /\ event_result' = None
            /\ ev_faulted' = FALSE
    /\ UNCHANGED <<envVars, saveVars, session, url_idx, doc, date, deck_links, link_idx,
                   decks, position_counter, all_events_data, pending, outcome, interrupts,
                   navs_after_int>>

\* how a save_data call ends: it returns or raises, to main's try block or to a handler
SaveEnds(raised) ==
    /\ pc' = IF raised /\ outcome = "running" THEN "on_error" ELSE "cleanup"
    /\ outcome' = IF outcome # "running" THEN outcome
                  ELSE IF raised THEN "error" ELSE "completed"
    /\ pending' = IF raised /\ outcome = "interrupted" THEN "fault" ELSE pending

\* lines 507-533
Save ==
    /\ pc = "save"
    /\ save_calls' = save_calls + 1
    /\ IF all_events_data = <<>>
       THEN SaveEnds(FALSE) /\ all_decks' = all_decks
       ELSE /\ all_decks' = Flatten(all_events_data)
            /\ pc' = "write"
            /\ UNCHANGED <<outcome, pending>>
    /\ UNCHANGED <<envVars, pageVars, eventVars, session, url_idx, doc, unique_events, ev_idx,
                   all_events_data, chunk_i, csv_file, interrupts, navs_after_int>>

\* lines 535-554: to_csv may raise (the file cannot be written); in the chunked
\* write it may raise at any chunk, after the chunks before it have been written
Write ==
    /\ pc = "write"
    /\ IF ~HasRows(all_decks)
       THEN pc' = "summary" /\ UNCHANGED <<chunk_i, csv_file, outcome, pending>>
       ELSE IF Len(all_decks) > ChunkThreshold
       THEN \/ /\ csv_file' = WriteChunks(csv_file, all_decks, 0, Len(all_decks))
               /\ chunk_i' = ((Len(all_decks) - 1) \div chunk_size) * chunk_size
               /\ pc' = "summary"
               /\ UNCHANGED <<outcome, pending>>
            \/ \E i \in ChunkStarts(Len(all_decks)) :
                  /\ csv_file' = WriteChunks(csv_file, all_decks, 0, i)
                  /\ chunk_i' = i
                  /\ SaveEnds(TRUE)
       ELSE \E ioFault \in BOOLEAN :
               IF ioFault
               THEN SaveEnds(TRUE) /\ UNCHANGED <<chunk_i, csv_file>>
               ELSE /\ csv_file' = ToCsv(csv_file, all_decks, "w", TRUE)
                    /\ pc' = "summary"
                    /\ UNCHANGED <<chunk_i, outcome, pending>>
    /\ UNCHANGED <<envVars, pageVars, eventVars, session, url_idx, doc, unique_events, ev_idx,
                   all_events_data, all_decks, save_calls, interrupts, navs_after_int>>

\* lines 556-568: line 563 reads csv_filename, which is bound only when all_decks is not empty
Summary ==
    /\ pc = "summary"
    /\ SaveEnds(all_decks = <<>>)
    /\ UNCHANGED <<envVars, pageVars, eventVars, saveVars, session, url_idx, doc,
                   unique_events, ev_idx, all_events_data, interrupts, navs_after_int>>

\* lines 671-676 and 677-686: the handlers save what has been accumulated
Handler ==
    /\ pc \in {"on_interrupt", "on_error"}
    /\ pc' = IF all_events_data # <<>> THEN "save" ELSE "cleanup"
    /\ UNCHANGED <<envVars, pageVars, eventVars, saveVars, session, url_idx, doc,
                   unique_events, ev_idx, all_events_data, pending, outcome, interrupts,
                   navs_after_int>>

\* lines 687-695 and close (lines 570-576)
Cleanup ==
    /\ pc = "cleanup"
    /\ session' = "closed"
    /\ pc' = "done"
    /\ UNCHANGED <<envVars, pageVars, eventVars, saveVars, url_idx, doc, unique_events,
                   ev_idx, all_events_data, pending, outcome, interrupts, navs_after_int>>

\* the positions from which a KeyboardInterrupt reaches the handler of line 671
Propagating ==
    {"next_url", "load", "extract", "paginate", "dedup", "ev_nav", "ev_find", "ev_return",
     "ev_wait", "save", "write", "summary"}

\* the positions inside the bare excepts of lines 462 and 486
Swallowing == {"ev_date", "ev_link"}

\* the user presses Ctrl+C: a KeyboardInterrupt is raised where the program is
UserInterrupt ==
    /\ interrupts < MaxInterrupts
    /\ interrupts' = interrupts + 1
    /\ \/ /\ pc = "init"
          /\ pc' = "done"
          /\ session' \in {"none", "open"}
          /\ pending' = "interrupt"
          /\ outcome' = "failed_start"
          /\ UNCHANGED eventVars
       \/ /\ pc \in Propagating
          /\ outcome = "running"
          /\ pc' = "on_interrupt"
          /\ outcome' = "interrupted"
          /\ UNCHANGED <<eventVars, session, pending>>
       \/ /\ pc \in Propagating \cup {"on_interrupt", "on_error"}
          /\ outcome # "running"
          /\ pc' = "cleanup"
          /\ pending' = "interrupt"
          /\ UNCHANGED <<eventVars, session, outcome>>
       \/ /\ pc = "ev_date"
          /\ pc' = "ev_find"
          /\ UNCHANGED <<eventVars, session, pending, outcome>>
       \/ /\ pc = "ev_link"
          /\ LET st == DeckStep(<<decks, position_counter>>, deck_links[link_idx], TRUE)
             IN  decks' = st[1] /\ position_counter' = st[2]
          /\ link_idx' = link_idx + 1
          /\ pc' = IF link_idx + 1 > Len(deck_links) THEN "ev_return" ELSE "ev_link"
          /\ UNCHANGED <<date, deck_links, event_result, ev_faulted, session, pending,
                         outcome>>
       \/ /\ pc = "cleanup"
          /\ pc' = "done"
          /\ session' \in {"open", "closed"}
          /\ UNCHANGED <<eventVars, pending, outcome>>
    /\ UNCHANGED <<envVars, pageVars, saveVars, url_idx, doc, unique_events, ev_idx,
                   all_events_data, navs_after_int>>

Next ==
    \/ StartBrowser
    \/ NextUrl
    \/ LoadInitial
    \/ ExtractPage
    \/ Paginate
    \/ Deduplicate
    \/ EvNavigate
    \/ EvDate
    \/ EvFindDecks
    \/ EvReadLink
    \/ EvReturn
    \/ EvWait
    \/ Save
    \/ Write
    \/ Summary
    \/ Handler
    \/ Cleanup
    \/ UserInterrupt

Spec == Init /\ [][Next]_vars

(***************************************************************************)
(* The deduplication of scrape_from_url on every accumulated list of at    *)
(* most MaxLinks event links.                                              *)
(***************************************************************************)
InitDedup ==
    /\ pc = "dedup"
    /\ session = "open"
    /\ n_urls = 1
    /\ site = Site(MaxPages, "run", "run")
    /\ url_idx = 1
    /\ doc = NoDoc
    /\ all_event_links \in SeqsUpTo(EventLinkSet, MaxLinks)
    /\ unique_events = <<>>
    /\ ev_idx = 0
    /\ all_events_data = <<>>
    /\ IdlePage
    /\ IdleEvent
    /\ IdleSave
    /\ IdleRun

NextDedup == Deduplicate

SpecDedup == InitDedup /\ [][NextDedup]_vars

\* the deduplication loop has run on a list that was not empty
Deduplicated == pc = "ev_nav"

\* C1: the deduplicated list unique_events holds no two entries with the same url
\* and is no longer than the accumulated list all_event_links.
C1_NoDuplicateUrl ==
    Deduplicated =>
        /\ \A i, j \in 1..Len(unique_events) :
              i # j => unique_events[i].url # unique_events[j].url
        /\ Len(unique_events) <= Len(all_event_links)

C1_Witness ==
    /\ Deduplicated
    /\ Len(unique_events) = 2
    /\ Len(all_event_links) = MaxLinks

\* the index of the first entry of links with address u
FirstIndex(links, u) ==
    CHOOSE i \in 1..Len(links) :
        /\ links[i].url = u
        /\ \A k \in 1..(i - 1) : links[k].url # u

\* C2: unique_events is the subsequence of first occurrences of all_event_links:
\* every url of the input appears exactly once, with the name of the first input
\* entry that has this url, and the entries keep the order in which their urls
\* were first seen.
C2_FirstOccurrences ==
    Deduplicated =>
        /\ \A i \in 1..Len(all_event_links) :
              Cardinality({j \in 1..Len(unique_events) :
                              unique_events[j].url = all_event_links[i].url}) = 1
        /\ \A j \in 1..Len(unique_events) :
              /\ \E i \in 1..Len(all_event_links) :
                    all_event_links[i].url = unique_events[j].url
              /\ unique_events[j] =
                    all_event_links[FirstIndex(all_event_links, unique_events[j].url)]
        /\ \A j, k \in 1..Len(unique_events) :
              j < k => FirstIndex(all_event_links, unique_events[j].url)
                           < FirstIndex(all_event_links, unique_events[k].url)

C2_Witness ==
    /\ Deduplicated
    /\ Len(unique_events) = 2
    /\ \E i, j \in 1..Len(all_event_links) :
          /\ i < j
          /\ all_event_links[i].url = all_event_links[j].url
          /\ all_event_links[i].name # all_event_links[j].name
          /\ unique_events[1] = all_event_links[i]

(***************************************************************************)
(* extract_event_data on every event page of at most MaxDeckLinks links,   *)
(* with faults and user interrupts at every step.                          *)
(***************************************************************************)
InitEvent ==
    /\ pc = "ev_nav"
    /\ session = "open"
    /\ n_urls = 1
    /\ site = Site(MaxPages, "run", "wide")
    /\ url_idx = 1
    /\ doc = Doc_E
    /\ all_event_links = <<EventLink(Name1, Url1)>>
    /\ unique_events = <<EventLink(Name1, Url1)>>
    /\ ev_idx = 1
    /\ all_events_data = <<>>
    /\ current_page = 1
    /\ page_events = <<EventLink(Name1, Url1)>>
    /\ has_next_page = FALSE
    /\ clicked = <<>>
    /\ extractions = 1
    /\ IdleEvent
    /\ IdleSave
    /\ IdleRun

NextEvent ==
    \/ EvNavigate
    \/ EvDate
    \/ EvFindDecks
    \/ EvReadLink
    \/ EvReturn
    \/ UserInterrupt

SpecEvent == InitEvent /\ [][NextEvent]_vars

\* C3: every record returned by extract_event_data has total_decks equal to the
\* number of its decks, and its decks carry the positions 1, 2, ... in order,
\* whatever links were skipped (empty text, no address, a read that raised).
C3_DensePositions ==
    event_result # None =>
        LET r == event_result[1]
        IN  /\ r.total_decks = Len(r.decks)
            /\ \A i \in 1..Len(r.decks) : r.decks[i].position = i

C3_Witness ==
    /\ event_result # None
    /\ Len(event_result[1].decks) = 2
    /\ Len(DeckLinks(doc)) = 3
    /\ DeckLinks(doc)[1].state = "stale"
    /\ ev_faulted

(***************************************************************************)
(* get_event_links_from_current_page on every document of at most          *)
(* MaxTables blocks.                                                       *)
(***************************************************************************)
InitLinks ==
    /\ pc = "extract"
    /\ session = "open"
    /\ n_urls = 1
    /\ site = Site(MaxPages, "run", "run")
    /\ url_idx = 1
    /\ doc \in WideListingDocs
    /\ all_event_links = <<>>
    /\ unique_events = <<>>
    /\ ev_idx = 0
    /\ all_events_data = <<>>
    /\ IdlePage
    /\ IdleEvent
    /\ IdleSave
    /\ IdleRun

NextLinks == ExtractPage

SpecLinks == InitLinks /\ [][NextLinks]_vars

\* get_event_links_from_current_page has returned and the debug branch did not fault
Extracted == pc = "paginate"

\* link l of the document, read as an event link
AsEventLink(l) == EventLink(Strip(l.text), l.href)

\* C4: with fewer than two table.Stable blocks nothing is returned; with two or
\* more, every returned link is a link of the second block, whatever the first
\* block, later blocks and the rest of the document contain.
C4_SecondTableOnly ==
    Extracted =>
        IF Len(StableTables(doc)) < 2
        THEN page_events = <<>>
        ELSE \A i \in 1..Len(page_events) :
                \E k \in 1..Len(StableTables(doc)[2].links) :
                    page_events[i] = AsEventLink(StableTables(doc)[2].links[k])

C4_Witness ==
    /\ Extracted
    /\ Len(StableTables(doc)) = 3
    /\ StableTables(doc)[1].links = <<L_GP1, L_PT2>>
    /\ StableTables(doc)[3].links = <<L_GP1, L_PT2>>
    /\ page_events = <<EventLink(Name2, Url1), EventLink(Name1, Url2)>>

(***************************************************************************)
(* One pass of the pagination step on every document of at most MaxBlocks  *)
(* blocks, on pages 1 and 2, with a fault at every browser call.           *)
(***************************************************************************)
InitPaginate ==
    /\ pc = "paginate"
    /\ session = "open"
    /\ n_urls = 1
    /\ site = Site(MaxPages, "run", "run")
    /\ url_idx = 1
    /\ doc \in PagDocs
    /\ current_page \in {1, 2}
    /\ extractions = current_page
    /\ page_events = <<>>
    /\ has_next_page = FALSE
    /\ clicked = <<>>
    /\ all_event_links \in {<<>>, <<EventLink(Name1, Url1), EventLink(Name2, Url1)>>}
    /\ unique_events = <<>>
    /\ ev_idx = 0
    /\ all_events_data = <<>>
    /\ IdleEvent
    /\ IdleSave
    /\ IdleRun

NextPaginate ==
    \/ Paginate
    \/ Deduplicate

SpecPaginate == InitPaginate /\ [][NextPaginate]_vars

\* the 'Next' link of the last navigation container carries the class Nav_PN_no
NextIsDisabled ==
    \E k \in 1..Len(NavDivs(doc)) :
        /\ k = Len(NavDivs(doc))
        /\ \E i \in 1..Len(NavDivs(doc)[k].links) :
              /\ IsNextText(NavDivs(doc)[k].links[i])
              /\ \A j \in 1..(i - 1) : ~IsNextText(NavDivs(doc)[k].links[j])
              /\ Contains(NavDivs(doc)[k].links[i].class, Str_NavPNno)

\* C5: when the 'Next' link of the last navigation container carries Nav_PN_no,
\* a pass of the pagination step triggers no link and reports no next page, and
\* the page loop ends, whatever other links the document contains.
C5_DisabledNextEndsLoop ==
    [][(pc = "paginate" /\ NextIsDisabled)
          => (clicked' = <<>> /\ has_next_page' = FALSE /\ pc' = "dedup")]_vars

(***************************************************************************)
(* The page loop of scrape_from_url on a site that never runs out of       *)
(* pages: every listing page may report a next page.                       *)
(***************************************************************************)
InitLoop ==
    /\ pc = "extract"
    /\ session = "open"
    /\ n_urls = 1
    /\ site = Site(PageCeiling + 1, "loop", "run")
    /\ url_idx = 1
    /\ doc \in LoopDocs
    /\ all_event_links = <<>>
    /\ unique_events = <<>>
    /\ ev_idx = 0
    /\ all_events_data = <<>>
    /\ IdlePage
    /\ IdleEvent
    /\ IdleSave
    /\ IdleRun

NextLoop ==
    \/ ExtractPage
    \/ Paginate

SpecLoop == InitLoop /\ [][NextLoop]_vars

\* the program is sequential: it takes its next step whenever it has one
FairSpecLoop == SpecLoop /\ WF_vars(NextLoop)

InPageLoop == pc \in {"extract", "paginate"}

\* C6: the page loop performs at most PageCeiling page extractions and is left,
\* also when the pagination step reports a next page on every iteration.
C6_LoopTerminates == [](extractions <= PageCeiling) /\ <>(~InPageLoop)

C6_Witness ==
    /\ pc = "dedup"
    /\ has_next_page
    /\ extractions = PageCeiling
    /\ current_page = PageCeiling + 1

(***************************************************************************)
(* Claims about the whole run (Spec).                                      *)
(***************************************************************************)
\* C7: after a user interrupt raised once the browser session has started, no
\* further event page is navigated to, save_data is attempted on the records
\* accumulated so far if there are any, and the run shuts down.
C7_InterruptStopsScraping ==
    /\ interrupts > 0 => ~navs_after_int
    /\ (pc = "done" /\ interrupts > 0 /\ outcome # "failed_start" /\ all_events_data # <<>>)
          => save_calls > 0

\* C8 as stated: any fault met by extract_event_data (navigation, date, deck
\* links) makes it return no record.
C8_AnyFaultNoRecord == (pc = "ev_wait" /\ ev_faulted) => event_result = None

\* C8 as amended: a fault raised by the navigation to the event page makes
\* extract_event_data return no record, no record is appended for that link, and
\* the processing loop goes on with the next event link.
C8_NavFaultNoRecord ==
    [][/\ (pc = "ev_nav" /\ ev_faulted' /\ interrupts' = interrupts)
            => (event_result' = None /\ all_events_data' = all_events_data /\ pc' = "ev_wait")
       /\ (pc = "ev_wait" /\ event_result = None /\ ev_idx < Len(unique_events)
              /\ interrupts' = interrupts)
            => (pc' = "ev_nav" /\ ev_idx' = ev_idx + 1)]_vars

C8_Witness ==
    /\ pc = "ev_nav"
    /\ ev_idx = 2
    /\ ev_faulted
    /\ event_result = None
    /\ all_events_data = <<>>

(***************************************************************************)
(* save_data on every list of at most MaxRecords event records.            *)
(***************************************************************************)
Date1 == <<"0", "2", "/", "0", "3", "/", "2", "4">>

RecordPalette ==
    {EventData(Name1, Date1, Url1,
               <<Deck(1, <<"R", "e", "d">>, DeckUrl1), Deck(2, <<"E", "l", "f">>, DeckUrl2)>>),
     EventData(Name2, Str_Unknown, Url2, <<>>),
     EventData(Name1, Str_Unknown, Url2, <<Deck(1, <<"E", "l", "f">>, DeckUrl2)>>)}

InitSave ==
    /\ pc = "save"
    /\ session = "open"
    /\ n_urls = 1
    /\ site = Site(MaxPages, "run", "run")
    /\ url_idx = 1
    /\ doc = Ev_1
    /\ all_event_links = <<>>
    /\ unique_events = <<>>
    /\ ev_idx = 0
    /\ all_events_data \in SeqsUpTo(RecordPalette, MaxRecords)
    /\ IdlePage
    /\ IdleEvent
    /\ IdleSave
    /\ IdleRun

NextSave ==
    \/ Save
    \/ Write
    \/ Summary

SpecSave == InitSave /\ [][NextSave]_vars

\* the number of decks of the first n event records
RECURSIVE DecksBefore(_, _)
DecksBefore(events, n) ==
    IF n = 0 THEN 0 ELSE DecksBefore(events, n - 1) + Len(events[n].decks)

\* save_data has built its rows
RowsBuilt == pc \in {"write", "summary"}

\* save_data has built its rows and has written them
RowsWritten == pc = "summary" /\ all_decks # <<>>

\* C9: save_data produces one row per (event record, deck) pair, with the seven
\* columns copied from the pair, in event order and within an event in deck
\* order; an event record with no deck contributes no row.
C9_OneRowPerDeck ==
    /\ RowsBuilt => Len(all_decks) = DecksBefore(all_events_data, Len(all_events_data))
    /\ RowsWritten =>
           /\ csv_file.exists
           /\ Len(csv_file.lines) = 1 + Len(all_decks)
           /\ csv_file.lines[1] = <<"event_name", "event_date", "event_url", "deck_position",
                                    "deck_name", "player_name", "deck_url">>
    /\ RowsBuilt =>
           \A e \in 1..Len(all_events_data) :
              \A d \in 1..Len(all_events_data[e].decks) :
                 LET event == all_events_data[e]
                     deck == event.decks[d]
                     n == DecksBefore(all_events_data, e - 1) + d
                 IN  /\ all_decks[n] =
                            [event_name |-> event.event_name, event_date |-> event.date,
                             event_url |-> event.event_url, deck_position |-> deck.position,
                             deck_name |-> deck.deck_name, player_name |-> deck.player,
                             deck_url |-> deck.deck_url]
                     /\ RowsWritten =>
                            csv_file.lines[n + 1] =
                                <<event.event_name, event.date, event.event_url,
                                  ToStr(deck.position), deck.deck_name, deck.player,
                                  deck.deck_url>>

C9_Witness ==
    /\ RowsWritten
    /\ Len(all_events_data) = 3
    /\ Len(all_events_data[1].decks) = 1
    /\ Len(all_events_data[2].decks) = 0
    /\ Len(all_events_data[3].decks) = 2
    /\ Len(csv_file.lines) = 4

(***************************************************************************)
(* save_data on row counts around and above the chunking threshold: one    *)
(* event record whose decks are numbered 1..n, with or without a file left *)
(* by an earlier run.                                                      *)
(***************************************************************************)
RowCounts == (ChunkThreshold - 1)..(ChunkThreshold + MaxExtraRows)

DeckNames == <<<<"R", "e", "d">>, <<"E", "l", "f">>>>

OneEvent(n) ==
    EventData(Name1, Date1, Url1,
              SubSeq([j \in 1..n |-> Deck(j, DeckNames[(j % 2) + 1], DeckUrl1)], 1, n))

\* the file an earlier run has left
OldFile == File(TRUE, <<Header, CsvLine(FlatRow(OneEvent(1), OneEvent(1).decks[1]))>>)

InitCsv ==
    /\ pc = "save"
    /\ session = "open"
    /\ n_urls = 1
    /\ site = Site(MaxPages, "run", "run")
    /\ url_idx = 1
    /\ doc = Ev_1
    /\ all_event_links = <<>>
    /\ unique_events = <<>>
    /\ ev_idx = 0
    /\ \E n \in RowCounts : all_events_data = <<OneEvent(n)>>
    /\ all_decks = <<>>
    /\ chunk_i = 0
    /\ csv_file \in {NoFile, OldFile}
    /\ save_calls = 0
    /\ IdlePage
    /\ IdleEvent
    /\ IdleRun

NextCsv ==
    \/ Save
    \/ Write
    \/ Summary

SpecCsv == InitCsv /\ [][NextCsv]_vars

\* the batched write has been used and has ended
BatchedWriteDone == pc = "summary" /\ Len(all_decks) > ChunkThreshold

\* C10: above the batching threshold the file holds what a single write of the
\* same rows holds: the header once, as first line, then every row once, in the
\* original order.
C10_BatchedEqualsSingle ==
    BatchedWriteDone =>
        /\ csv_file.exists
        /\ csv_file.lines = <<Header>> \o [j \in 1..Len(all_decks) |-> CsvLine(all_decks[j])]
        /\ \A j \in 2..Len(csv_file.lines) : csv_file.lines[j] # Header

\* a batched write of several full batches and a partial last one, over an old file
C10_Witness ==
    /\ BatchedWriteDone
    /\ Len(all_decks) > 2 * chunk_size
    /\ Len(all_decks) % chunk_size # 0
    /\ chunk_i = ((Len(all_decks) - 1) \div chunk_size) * chunk_size
    /\ Len(csv_file.lines) = Len(all_decks) + 1
    /\ save_calls = 1

(***************************************************************************)
(* save_data without rows.                                                 *)
(***************************************************************************)
\* no event record of all_events_data has a deck (the list may be empty)
NoDeckAtAll == \A e \in 1..Len(all_events_data) : all_events_data[e].decks = <<>>

\* C11: save_data writes no output file when all_events_data is empty and when
\* every event record of it has an empty decks list.
C11_NoRowsNoFile == NoDeckAtAll => csv_file = NoFile

\* save_data has run to its end on two event records without decks
C11_Witness ==
    /\ NoDeckAtAll
    /\ Len(all_events_data) = 2
    /\ save_calls = 1
    /\ pc \in {"cleanup", "on_error"}
    /\ csv_file = NoFile

(***************************************************************************)
(* The event records of a whole run.                                       *)
(***************************************************************************)
\* C12: in a whole run, also with several input addresses, no two event records
\* of all_events_data have the same event_url.
C12_UniqueEventUrls ==
    \A i, j \in 1..Len(all_events_data) :
        i # j => all_events_data[i].event_url # all_events_data[j].event_url

(***************************************************************************)
(* Faults of the pagination step.                                          *)
(***************************************************************************)
\* C13: a pass of the pagination step in which a fault is raised reports no
\* next page: the page loop ends on the current page and scrape_from_url goes
\* on to deduplicate the links accumulated so far.
C13_PaginationFaultEndsLoop ==
    [][pc = "paginate" =>
         \A drv \in DriverFaults :
            LET r == PaginationStep(doc, current_page, drv)
            IN  (r.fault /\ has_next_page' = r.has_next /\ clicked' = r.clicked)
                   => /\ has_next_page' = FALSE
                      /\ pc' = "dedup"
                      /\ current_page' = current_page
                      /\ extractions' = extractions
                      /\ all_event_links' = all_event_links]_vars

\* a link was triggered and the read of current_url that follows raised: the
\* loop has ended with the accumulated links in hand
C13_Witness ==
    /\ pc = "dedup"
    /\ clicked # <<>>
    /\ ~has_next_page
    /\ all_event_links # <<>>

(***************************************************************************)
(* The browser session at the end of a run.                                *)
(***************************************************************************)
\* C14: when a run in which the browser session was started has ended, the
\* session has been released, whatever happened before.
C14_SessionReleased == pc = "done" => session # "open"

(***************************************************************************)
(* The league filter of the page event extractor.                          *)
(***************************************************************************)
\* the letters of 'league', each in its two cases
LeagueLetters ==
    <<{"l", "L"}, {"e", "E"}, {"a", "A"}, {"g", "G"}, {"u", "U"}, {"e", "E"}>>

\* text s contains 'league' in some letter case
HasLeagueAnyCase(s) ==
    \E i \in 1..Len(s) :
        /\ i + Len(LeagueLetters) - 1 <= Len(s)
        /\ \A k \in 1..Len(LeagueLetters) : s[i + k - 1] \in LeagueLetters[k]

\* C15: get_event_links_from_current_page never returns a link whose text
\* contains 'league' in any letter case.
C15_NoLeagueLink ==
    Extracted => \A i \in 1..Len(page_events) : ~HasLeagueAnyCase(page_events[i].name)

\* the second table holds a league link between two links that are returned
C15_Witness ==
    /\ Extracted
    /\ Len(StableTables(doc)) >= 2
    /\ StableTables(doc)[2].links = <<L_PT1, L_League, L_GP2>>
    /\ HasLeagueAnyCase(L_League.text)
    /\ page_events = <<EventLink(Name2, Url1), EventLink(Name1, Url2)>>

(***************************************************************************)
(* The link triggered by the numbered-link strategy.                       *)
(***************************************************************************)
\* the page query parameter of address href has the value n: 'cp=' is followed
\* by the digits of n and by no further digit
CpValueIs(href, n) ==
    \E i \in 1..Len(href) :
        LET after == i + Len(Str_cp)
            stop == after + Len(ToStr(n))
        IN  /\ MatchesAt(href, Str_cp, i)
            /\ MatchesAt(href, ToStr(n), after)
            /\ stop <= Len(href) => ~IsDigit(href[stop])

\* link l is a link to page n
IsLinkToPage(l, n) ==
    \/ Strip(l.text) = ToStr(n) /\ Len(Strip(l.text)) <= 2
    \/ CpValueIs(l.href, n)

\* the 'Next' strategy triggers no link in document doc
Method1TriggersNothing == Method1(doc, "none").clicked = <<>>

\* C16: a link triggered by the numbered-link strategy on page n is a link to
\* page n + 1, by its text or by the value of its page parameter.
C16_Method2OpensNextPage ==
    [][(pc = "paginate" /\ Method1TriggersNothing /\ clicked' # <<>>)
          => IsLinkToPage(clicked'[1], current_page + 1)]_vars

(***************************************************************************)
(* The class filter of the page event extractor.                           *)
(***************************************************************************)
\* link l of the second table is a candidate that can be read, has a text and
\* an address, is no league event and has a class other than 'und'
QualifiesByClassEquality(l) ==
    /\ l.state = "ok"
    /\ Contains(l.href, EventMarker)
    /\ Strip(l.text) # <<>>
    /\ l.href # <<>>
    /\ ~HasLeagueAnyCase(l.text)
    /\ l.class # Str_und

\* C17: when no browser call raises, the links returned are, in page-render
\* order, the links of the second table that have a text, an address, no
\* 'league' in the text and a class marker other than 'und'.
C17_OnlyUndClassExcluded ==
    [][(pc = "extract" /\ pc' = "paginate" /\ Len(StableTables(doc)) >= 2
           /\ page_events' = GetEventLinks(doc, FALSE))
          => LET kept == SelectSeq(StableTables(doc)[2].links, QualifiesByClassEquality)
             IN  page_events' = [i \in 1..Len(kept) |-> AsEventLink(kept[i])]]_vars

(***************************************************************************)
(* The 'Next' strategy of the pagination step.                             *)
(***************************************************************************)
\* text s holds one of the three spellings the XPath of line 160 looks for
HasNextSpelling(s) ==
    \E w \in {<<"N", "e", "x", "t">>, <<"n", "e", "x", "t">>, <<"N", "E", "X", "T">>} :
        \E i \in 1..Len(s) : MatchesAt(s, w, i)

\* the links of the last navigation container of the document (none without one)
LastNavLinks ==
    LET navs == {k \in 1..Len(doc.blocks) : doc.blocks[k].kind = "nav"}
    IN  IF navs = {} THEN <<>>
        ELSE doc.blocks[CHOOSE k \in navs : \A j \in navs : j <= k].links

\* link i of the last navigation container is the first one with a 'Next' text,
\* can be read and does not carry the disabled marker class
FoundNextAt(i) ==
    /\ HasNextSpelling(LastNavLinks[i].text)
    /\ \A j \in 1..(i - 1) : ~HasNextSpelling(LastNavLinks[j].text)
    /\ LastNavLinks[i].state = "ok"
    /\ \A k \in 1..Len(LastNavLinks[i].class) :
           ~MatchesAt(LastNavLinks[i].class, Str_NavPNno, k)

\* C18 as claimed: a 'Next' link found in the last navigation container that
\* does not carry the disabled marker class is triggered and the step reports
\* success (when no browser call raises).
C18_FoundNextIsTriggered ==
    pc = "paginate" =>
        \A i \in 1..Len(LastNavLinks) :
            FoundNextAt(i) =>
                PaginationStep(doc, current_page, "none")
                    = PagResult(TRUE, <<LastNavLinks[i]>>, FALSE)

\* C18, amended: only the last navigation container is searched for 'Next';
\* when the link found there does not carry the disabled marker class and is
\* enabled, the step triggers it and reports success if no browser call raises,
\* and in every case triggers no other link; a 'Next' link of another container
\* is never triggered.
C18_EnabledNextIsTriggered ==
    [][pc = "paginate" =>
         /\ \A i \in 1..Len(LastNavLinks) :
               (FoundNextAt(i) /\ LastNavLinks[i].enabled) =>
                  /\ PaginationStep(doc, current_page, "none")
                         = PagResult(TRUE, <<LastNavLinks[i]>>, FALSE)
                  /\ clicked' \in {<<>>, <<LastNavLinks[i]>>}
                  /\ has_next_page' =>
                         (clicked' = <<LastNavLinks[i]>> /\ current_page' = current_page + 1)
         /\ (\A i \in 1..Len(LastNavLinks) : ~HasNextSpelling(LastNavLinks[i].text))
               => \A j \in 1..Len(clicked') : ~HasNextSpelling(clicked'[j].text)]_vars

\* an enabled 'Next' link has been triggered and the loop goes on to page 2
C18_Witness ==
    /\ pc = "extract"
    /\ has_next_page
    /\ clicked = <<L_NextOn>>
    /\ current_page = 2

(***************************************************************************)
(* The end of save_data without rows.                                      *)
(***************************************************************************)
\* C19: save_data raises no fault when no event record has a deck, so a run
\* without user interrupt whose event records all have zero decks does not take
\* the unexpected-error path of main.
C19_ZeroDeckRunCompletes == (NoDeckAtAll /\ interrupts = 0) => outcome # "error"

====
